---- MODULE Spec2Model ----
(***************************************************************************)
(* Model of api/main.py: a Flask service that appends step samples to      *)
(* data/steps.jsonl under a process-wide threading.Lock and mirrors the    *)
(* number of stored samples in data/metadata.json.                         *)
(*                                                                         *)
(* Request threads run the three /steps handlers concurrently              *)
(* (app.run(threaded=True)).  Every file operation of a handler is one     *)
(* step, so that the interleavings of the handlers are those of the code.  *)
(***************************************************************************)
EXTENDS Integers, Sequences, FiniteSets, TLC

\* ---------------------------------------------------------------- bounds
NumThreads == 2
MaxReqs == 3
MaxLen == 2
MaxStored == 2

Threads == 1..NumThreads

\* ------------------------------------------------------------ JSON values
\* Samples are opaque JSON values: the code only asks whether one is a dict
\* and never compares two.  The i-th element of the list sent to thread t is
\* either an object of its own or a non-object (a number, a string, a list,
\* null).
Sample(t, i, isDict) == [dict |-> isDict, by |-> t, pos |-> i]

\* isinstance(sample, dict)
IsDict(sample) == sample.dict

\* json.dumps(sample) + '\n': one newline-terminated line of text
Dumps(sample) == [text |-> <<sample.by, sample.pos>>, end |-> "\n"]

RECURSIVE SeqsUpTo(_, _)
SeqsUpTo(S, n) ==
    IF n = 0 THEN {<<>>}
    ELSE LET shorter == SeqsUpTo(S, n - 1)
         IN  shorter \cup {Append(s, x) : s \in {t \in shorter : Len(t) = n - 1}, x \in S}

\* The lists a client may send: which elements are objects.  The for loop
\* stops at the first non-object and never looks at what follows it, so lists
\* with one non-object, at any position, stand for all lists with some.
Shapes ==
    {s \in SeqsUpTo(BOOLEAN, MaxLen) : Cardinality({i \in 1..Len(s) : ~s[i]}) <= 1}

\* The parsed request bodies of POST /steps (request.get_json()):
\*   null     None or an empty object/list/string: falsy
\*   nokey    an object without the key "samples"
\*   text     a JSON string that contains the text samples (not an object)
\*   notlist  an object whose "samples" value is not a list
\*   list     an object whose "samples" value is a list
Bodies ==
    {[kind |-> k, shape |-> <<>>] : k \in {"null", "nokey", "text", "notlist"}}
    \cup {[kind |-> "list", shape |-> s] : s \in Shapes}

\* data['samples'] of the request thread t serves
SamplesOf(t, body) == [i \in 1..Len(body.shape) |-> Sample(t, i, body.shape[i])]

\* ------------------------------------------------------- metadata.json
\* Content of METADATA_FILE:
\*   absent   the file does not exist
\*   empty    zero bytes (just truncated by open(.., 'w'))
\*   garbage  bytes that are not JSON
\*   nondict  JSON, but not an object (data.get raises AttributeError)
\*   nokey    a JSON object without the key "count"
\*   count    {"count": n}
MetaAbsent == [k |-> "absent", n |-> 0]
MetaEmpty == [k |-> "empty", n |-> 0]
MetaCount(n) == [k |-> "count", n |-> n]
MetaStates ==
    {[k |-> kind, n |-> 0] : kind \in {"absent", "empty", "garbage", "nondict", "nokey"}}
    \cup {MetaCount(n) : n \in 0..MaxStored}

VARIABLES
    file_lock,      \* 0 when free, else the thread that holds it
    logExists,      \* os.path.exists(JSONL_FILE)
    log,            \* the lines of JSONL_FILE, in file order
    meta,           \* content of METADATA_FILE
    pc,             \* position of each request thread in its handler
    method,         \* the request a thread is serving
    samples,        \* save_steps: data['samples']
    idx,            \* save_steps: samples consumed by the for loop
    buf,            \* save_steps: lines written to f and not yet flushed
    current_count,  \* the count set_stored_count is called with
    resp,           \* the response sent last, and to which request
    pre,            \* history: the files when file_lock was last acquired
    nReqs,          \* history: requests started
    faults,         \* history: file operations that raised OSError
    okSamples,      \* history: samples of all POSTs answered 200
    sinceReset,     \* history: samples of POSTs answered 200 since the last DELETE
    wasReset,       \* history: a DELETE was answered 200
    wasRejected,    \* history: a POST was answered 400 inside the lock
    serial          \* history: the store of the one-at-a-time run, see RunAlone

files == <<logExists, log, meta>>
locals == <<method, samples, idx, buf, current_count>>
hist == <<okSamples, sinceReset, wasReset, wasRejected, serial>>
vars == <<file_lock, logExists, log, meta, pc, method, samples, idx, buf,
          current_count, resp, pre, nReqs, faults, okSamples, sinceReset,
          wasReset, wasRejected, serial>>

NoPre == [exists |-> FALSE, log |-> <<>>, meta |-> MetaAbsent]
NoResp == [method |-> "", status |-> 0, msg |-> "", n |-> 0]
Response(m, status, msg, n) == [method |-> m, status |-> status, msg |-> msg, n |-> n]

InitThreads ==
    /\ file_lock = 0
    /\ pc = [p \in Threads |-> "idle"]
    /\ method = [p \in Threads |-> ""]
    /\ samples = [p \in Threads |-> <<>>]
    /\ idx = [p \in Threads |-> 0]
    /\ buf = [p \in Threads |-> <<>>]
    /\ current_count = [p \in Threads |-> 0]
    /\ resp = NoResp
    /\ pre = NoPre
    /\ nReqs = 0
    /\ faults = 0
    /\ okSamples = 0
    /\ sinceReset = 0
    /\ wasReset = FALSE
    /\ wasRejected = FALSE
    /\ serial = [log |-> <<>>, count |-> 0]

\* The data directory right after os.makedirs on a fresh checkout: no files.
Init ==
    /\ InitThreads
    /\ logExists = FALSE
    /\ log = <<>>
    /\ meta = MetaAbsent

\* ------------------------------------------------------ get_stored_count
\* Lines 26-28: open(METADATA_FILE), json.load, data.get('count', 0).
\* raised: one of them raised (a failed read, no JSON, JSON that is no object).
OpenAndLoad(m, readFails) ==
    IF readFails \/ m.k \in {"absent", "empty", "garbage", "nondict"}
    THEN [raised |-> TRUE, val |-> 0]
    ELSE IF m.k = "count" THEN [raised |-> FALSE, val |-> m.n]
                          ELSE [raised |-> FALSE, val |-> 0]

\* ExceptPass as it would be without the try block: the exception goes up.
ExceptPropagates(r) == r

\* Lines 29-31: except: pass, then return 0.
ExceptPass(r) == IF r.raised THEN [raised |-> FALSE, val |-> 0] ELSE r

\* os.path.exists(METADATA_FILE)
MetaExists(m) == m.k # "absent"

get_stored_count(m, readFails) ==
    IF MetaExists(m) THEN ExceptPass(OpenAndLoad(m, readFails))
                     ELSE [raised |-> FALSE, val |-> 0]

\* What a reader of the counter gets when nothing fails.
StoredCount == get_stored_count(meta, FALSE).val

\* ------------------------------------------------ one request at a time
\* Lines 55-61: the lines save_steps writes for a batch.
LinesOf(batch) == [i \in 1..Len(batch) |-> Dumps(batch[i])]

\* The samples of a batch before its first non-dict.
ValidPrefix(batch) ==
    LET bad == {i \in 1..Len(batch) : ~IsDict(batch[i])}
    IN  IF bad = {} THEN batch
        ELSE SubSeq(batch, 1, (CHOOSE i \in bad : \A j \in bad : i <= j) - 1)

\* The store s after one request has run on it with no other request in
\* flight: save_steps (lines 53-67) appends the batch and adds its size to
\* the count, or stops at the first non-dict (line 58); delete_all_steps
\* (lines 90-95) empties the Log and sets the count to 0.
RunAlone(s, m, batch) ==
    IF m = "DELETE" THEN [log |-> <<>>, count |-> 0]
    ELSE IF ValidPrefix(batch) = batch
         THEN [log |-> s.log \o LinesOf(batch), count |-> s.count + Len(batch)]
         ELSE [log |-> s.log \o LinesOf(ValidPrefix(batch)), count |-> s.count]

\* ------------------------------------------------------------- helpers
\* The server starts one thread per request (threaded=True); at most
\* NumThreads requests are in flight, and a new request gets the lowest free
\* thread number.
CanStart(p) ==
    /\ pc[p] = "idle"
    /\ \A q \in Threads : q < p => pc[q] # "idle"
    /\ nReqs < MaxReqs

Goto(p, label) == pc' = [pc EXCEPT ![p] = label]

\* The handler returns r: the response is sent, the locals die with the call
\* and the thread goes back to the pool.
Return(p, r) ==
    /\ pc' = [pc EXCEPT ![p] = "idle"]
    /\ resp' = r
    /\ method' = [method EXCEPT ![p] = ""]
    /\ samples' = [samples EXCEPT ![p] = <<>>]
    /\ idx' = [idx EXCEPT ![p] = 0]
    /\ buf' = [buf EXCEPT ![p] = <<>>]
    /\ current_count' = [current_count EXCEPT ![p] = 0]

\* Leaving the with file_lock block, by return or by exception.
Release(p) == file_lock' = 0

\* Acquire as it would be if the handlers did not wait for the lock.
AcquireWithoutWaiting(p) ==
    /\ file_lock' = p
    /\ pre' = [exists |-> logExists, log |-> log, meta |-> meta]

\* with file_lock: blocks until the lock is free.
Acquire(p) ==
    /\ file_lock = 0
    /\ file_lock' = p
    /\ pre' = [exists |-> logExists, log |-> log, meta |-> meta]

\* Lines 71-72, 82-83, 97-98: except Exception, answered 500.
ServerError(m) == Response(m, 500, "Server error", 0)

\* ---------------------------------------------------- POST /steps
\* PostRequest as it would be if the Log were opened before the shape of the
\* body is looked at.
PostRequestOpeningFirst(p, body) ==
    /\ CanStart(p)
    /\ nReqs' = nReqs + 1
    /\ logExists' = TRUE
    /\ UNCHANGED <<file_lock, log, meta, pre, faults, hist>>
    /\ IF body.kind \in {"null", "nokey"}
       THEN Return(p, Response("POST", 400, "Invalid request body", 0))
       ELSE IF body.kind = "text"
       THEN Return(p, ServerError("POST"))
       ELSE IF body.kind = "notlist"
       THEN Return(p, Response("POST", 400, "samples must be a list", 0))
       ELSE /\ Goto(p, "p_lock")
            /\ method' = [method EXCEPT ![p] = "POST"]
            /\ samples' = [samples EXCEPT ![p] = SamplesOf(p, body)]
            /\ UNCHANGED <<idx, buf, current_count, resp>>

\* Lines 44-50: the request arrives and its shape is validated.
PostRequest(p, body) ==
    /\ CanStart(p)
    /\ nReqs' = nReqs + 1
    /\ UNCHANGED <<file_lock, files, pre, faults, hist>>
    /\ IF body.kind \in {"null", "nokey"}
       THEN Return(p, Response("POST", 400, "Invalid request body", 0))
       ELSE IF body.kind = "text"
       THEN Return(p, ServerError("POST"))   \* data['samples'] on a str: TypeError
       ELSE IF body.kind = "notlist"
       THEN Return(p, Response("POST", 400, "samples must be a list", 0))
       ELSE /\ Goto(p, "p_lock")
            /\ method' = [method EXCEPT ![p] = "POST"]
            /\ samples' = [samples EXCEPT ![p] = SamplesOf(p, body)]
            /\ UNCHANGED <<idx, buf, current_count, resp>>

\* PostAcquire as it would be if save_steps wrote without taking the lock.
PostAcquireWithoutLock(p) ==
    /\ pc[p] = "p_lock"
    /\ Goto(p, "p_open")
    /\ serial' = RunAlone(serial, "POST", samples[p])
    /\ UNCHANGED <<file_lock, files, locals, resp, pre, nReqs, faults, okSamples,
                   sinceReset, wasReset, wasRejected>>

\* Line 53: with file_lock.
PostAcquire(p) ==
    /\ pc[p] = "p_lock"
    /\ Acquire(p)
    /\ Goto(p, "p_open")
    /\ serial' = RunAlone(serial, "POST", samples[p])
    /\ UNCHANGED <<files, locals, resp, nReqs, faults, okSamples, sinceReset,
                   wasReset, wasRejected>>

\* PostOpen as it would be with mode 'w': the Log is emptied.
PostOpenTruncating(p) ==
    /\ pc[p] = "p_open"
    /\ logExists' = TRUE
    /\ log' = <<>>
    /\ Goto(p, "p_loop")
    /\ UNCHANGED <<file_lock, meta, locals, resp, pre, nReqs, faults, hist>>

\* Line 54: open(JSONL_FILE, 'a') creates the file when it is missing.
PostOpen(p) ==
    /\ pc[p] = "p_open"
    /\ logExists' = TRUE
    /\ Goto(p, "p_loop")
    /\ UNCHANGED <<file_lock, log, meta, locals, resp, pre, nReqs, faults, hist>>

\* Lines 55-61, one iteration on a dict: f.write puts the line in f's buffer.
PostWrite(p) ==
    /\ pc[p] = "p_loop"
    /\ idx[p] < Len(samples[p])
    /\ IsDict(samples[p][idx[p] + 1])
    /\ buf' = [buf EXCEPT ![p] = Append(@, Dumps(samples[p][idx[p] + 1]))]
    /\ idx' = [idx EXCEPT ![p] = @ + 1]
    /\ UNCHANGED <<file_lock, files, pc, method, samples, current_count, resp,
                   pre, nReqs, faults, hist>>

\* Line 61: a write that fills f's buffer sends the buffered lines to the file.
PostFlush(p) ==
    /\ pc[p] = "p_loop"
    /\ buf[p] # <<>>
    /\ log' = log \o buf[p]
    /\ buf' = [buf EXCEPT ![p] = <<>>]
    /\ UNCHANGED <<file_lock, logExists, meta, pc, method, samples, idx,
                   current_count, resp, pre, nReqs, faults, hist>>

\* PostReject as it would be if the samples written before the non-dict
\* were counted on the way out.
PostRejectCountingPrefix(p) ==
    /\ pc[p] = "p_loop"
    /\ idx[p] < Len(samples[p])
    /\ ~IsDict(samples[p][idx[p] + 1])
    /\ log' = log \o buf[p]
    /\ meta' = MetaCount(StoredCount + idx[p])
    /\ Release(p)
    /\ Return(p, Response("POST", 400, "Each sample must be a JSON object", 0))
    /\ wasRejected' = TRUE
    /\ UNCHANGED <<logExists, pre, nReqs, faults, okSamples,
                   sinceReset, wasReset, serial>>

\* PostReject as it would be if the return at line 58 left the lock held.
PostRejectKeepingLock(p) ==
    /\ pc[p] = "p_loop"
    /\ idx[p] < Len(samples[p])
    /\ ~IsDict(samples[p][idx[p] + 1])
    /\ log' = log \o buf[p]
    /\ Return(p, Response("POST", 400, "Each sample must be a JSON object", 0))
    /\ wasRejected' = TRUE
    /\ UNCHANGED <<file_lock, logExists, meta, pre, nReqs, faults, okSamples,
                   sinceReset, wasReset, serial>>

\* Lines 57-58, an iteration on a non-dict: return 400 from inside both with
\* blocks; leaving them closes f (its buffer is flushed) and frees the lock.
PostReject(p) ==
    /\ pc[p] = "p_loop"
    /\ idx[p] < Len(samples[p])
    /\ ~IsDict(samples[p][idx[p] + 1])
    /\ log' = log \o buf[p]
    /\ Release(p)
    /\ Return(p, Response("POST", 400, "Each sample must be a JSON object", 0))
    /\ wasRejected' = TRUE
    /\ UNCHANGED <<logExists, meta, pre, nReqs, faults, okSamples,
                   sinceReset, wasReset, serial>>

\* PostClose as it would be if the lines still in f's buffer were lost.
PostCloseDroppingBuffer(p) ==
    /\ pc[p] = "p_loop"
    /\ idx[p] = Len(samples[p])
    /\ buf' = [buf EXCEPT ![p] = <<>>]
    /\ Goto(p, "p_count")
    /\ UNCHANGED <<file_lock, files, method, samples, idx,
                   current_count, resp, pre, nReqs, faults, hist>>

\* Line 54, end of the with open block: f is closed, its buffer flushed.
PostClose(p) ==
    /\ pc[p] = "p_loop"
    /\ idx[p] = Len(samples[p])
    /\ log' = log \o buf[p]
    /\ buf' = [buf EXCEPT ![p] = <<>>]
    /\ Goto(p, "p_count")
    /\ UNCHANGED <<file_lock, logExists, meta, method, samples, idx,
                   current_count, resp, pre, nReqs, faults, hist>>

\* PostGetCount as it would be if the batch size replaced the count.
PostGetCountOverwriting(p, readFails) ==
    /\ pc[p] = "p_count"
    /\ current_count' = [current_count EXCEPT ![p] = Len(samples[p])]
    /\ faults' = faults + (IF readFails THEN 1 ELSE 0)
    /\ Goto(p, "set_open")
    /\ UNCHANGED <<file_lock, files, method, samples, idx, buf, resp, pre,
                   nReqs, hist>>

\* Lines 64-65: current_count = get_stored_count(), and the argument of
\* set_stored_count is evaluated.
\* readFails: reading METADATA_FILE raises OSError.
PostGetCount(p, readFails) ==
    /\ pc[p] = "p_count"
    /\ current_count' = [current_count EXCEPT
          ![p] = get_stored_count(meta, readFails).val + Len(samples[p])]
    /\ faults' = faults + (IF readFails THEN 1 ELSE 0)
    /\ Goto(p, "set_open")
    /\ UNCHANGED <<file_lock, files, method, samples, idx, buf, resp, pre,
                   nReqs, hist>>

\* ------------------------------------------------------ set_stored_count
\* Line 36: open(METADATA_FILE, 'w') creates or truncates the file.
SetOpen(p) ==
    /\ pc[p] = "set_open"
    /\ meta' = MetaEmpty
    /\ Goto(p, "set_dump")
    /\ UNCHANGED <<file_lock, logExists, log, locals, resp, pre, nReqs, faults, hist>>

\* Line 37 and the end of the with block: {"count": count} reaches the file.
\* set_stored_count is the last statement under the lock in both callers, so
\* the caller then leaves with file_lock and returns its 200
\* (line 67 for save_steps, line 95 for delete_all_steps).
SetDump(p) ==
    /\ pc[p] = "set_dump"
    /\ meta' = MetaCount(current_count[p])
    /\ IF method[p] = "POST"
       THEN /\ Return(p, Response("POST", 200, "Success", Len(samples[p])))
            /\ okSamples' = okSamples + Len(samples[p])
            /\ sinceReset' = sinceReset + Len(samples[p])
            /\ UNCHANGED <<wasReset, wasRejected>>
       ELSE /\ Return(p, Response("DELETE", 200, "All steps deleted successfully", 0))
            /\ sinceReset' = 0
            /\ wasReset' = TRUE
            /\ UNCHANGED <<okSamples, wasRejected>>
    /\ Release(p)
    /\ UNCHANGED <<logExists, log, pre, nReqs, faults, serial>>

\* ---------------------------------------------------- DELETE /steps
DeleteRequest(p) ==
    /\ CanStart(p)
    /\ nReqs' = nReqs + 1
    /\ method' = [method EXCEPT ![p] = "DELETE"]
    /\ Goto(p, "d_lock")
    /\ UNCHANGED <<file_lock, files, samples, idx, buf, current_count, resp,
                   pre, faults, hist>>

\* DeleteAcquire as it would be if delete_all_steps did not take the lock.
DeleteAcquireWithoutLock(p) ==
    /\ pc[p] = "d_lock"
    /\ Goto(p, "d_remove")
    /\ serial' = RunAlone(serial, "DELETE", <<>>)
    /\ UNCHANGED <<file_lock, files, locals, resp, pre, nReqs, faults, okSamples,
                   sinceReset, wasReset, wasRejected>>

\* Line 90: with file_lock.
DeleteAcquire(p) ==
    /\ pc[p] = "d_lock"
    /\ Acquire(p)
    /\ Goto(p, "d_remove")
    /\ serial' = RunAlone(serial, "DELETE", <<>>)
    /\ UNCHANGED <<files, locals, resp, nReqs, faults, okSamples, sinceReset,
                   wasReset, wasRejected>>

\* DeleteRemove as it would be if the count were written back as it is.
DeleteRemoveKeepingCount(p) ==
    /\ pc[p] = "d_remove"
    /\ logExists' = FALSE
    /\ log' = <<>>
    /\ current_count' = [current_count EXCEPT ![p] = StoredCount]
    /\ Goto(p, "set_open")
    /\ UNCHANGED <<file_lock, meta, method, samples, idx, buf, resp, pre,
                   nReqs, faults, hist>>

\* DeleteRemove as it would be without the os.path.exists test: os.remove
\* of a missing file raises FileNotFoundError, answered 500.
DeleteRemoveUnchecked(p) ==
    /\ pc[p] = "d_remove"
    /\ IF logExists
       THEN /\ logExists' = FALSE
            /\ log' = <<>>
            /\ current_count' = [current_count EXCEPT ![p] = 0]
            /\ Goto(p, "set_open")
            /\ UNCHANGED <<file_lock, meta, method, samples, idx, buf, resp>>
       ELSE /\ Release(p)
            /\ Return(p, ServerError("DELETE"))
            /\ UNCHANGED <<files>>
    /\ UNCHANGED <<pre, nReqs, faults, hist>>

\* Lines 91-94: remove the Log if it exists, then call set_stored_count(0).
DeleteRemove(p) ==
    /\ pc[p] = "d_remove"
    /\ logExists' = FALSE
    /\ log' = <<>>
    /\ current_count' = [current_count EXCEPT ![p] = 0]
    /\ Goto(p, "set_open")
    /\ UNCHANGED <<file_lock, meta, method, samples, idx, buf, resp, pre,
                   nReqs, faults, hist>>

\* ------------------------------------------------------- GET /steps
\* Lines 79 and 25: count_steps calls get_stored_count without file_lock;
\* a missing counter file gives 0.
CountRequest(p) ==
    /\ CanStart(p)
    /\ nReqs' = nReqs + 1
    /\ IF MetaExists(meta)
       THEN /\ Goto(p, "g_load")
            /\ method' = [method EXCEPT ![p] = "GET"]
            /\ UNCHANGED <<samples, idx, buf, current_count, resp>>
       ELSE Return(p, Response("GET", 200, "storedCount", 0))
    /\ UNCHANGED <<file_lock, files, pre, faults, hist>>

\* Lines 26-31 and 80-83: the file is opened and parsed; count_steps answers.
\* readFails: reading METADATA_FILE raises OSError.
CountLoad(p, readFails) ==
    /\ pc[p] = "g_load"
    /\ LET r == ExceptPass(OpenAndLoad(meta, readFails))
       IN  IF r.raised THEN Return(p, ServerError("GET"))
                       ELSE Return(p, Response("GET", 200, "storedCount", r.val))
    /\ faults' = faults + (IF readFails THEN 1 ELSE 0)
    /\ UNCHANGED <<file_lock, files, pre, nReqs, hist>>

\* ------------------------------------------------------ specification
\* The service with a file system that never fails.
Next ==
    \E p \in Threads :
        \/ \E body \in Bodies : PostRequest(p, body)
        \/ PostAcquire(p)
        \/ PostOpen(p)
        \/ PostWrite(p)
        \/ PostFlush(p)
        \/ PostReject(p)
        \/ PostClose(p)
        \/ PostGetCount(p, FALSE)
        \/ SetOpen(p)
        \/ SetDump(p)
        \/ DeleteRequest(p)
        \/ DeleteAcquire(p)
        \/ DeleteRemove(p)
        \/ CountRequest(p)
        \/ CountLoad(p, FALSE)

Spec == Init /\ [][Next]_vars

\* GET /steps alone, over a data directory whose counter file holds anything
\* (left by an earlier run, a crash or an editor) and whose reads may fail.
InitAnyMeta ==
    /\ InitThreads
    /\ logExists = FALSE
    /\ log = <<>>
    /\ meta \in MetaStates

NextCount ==
    \E p \in Threads :
        \/ CountRequest(p)
        \/ \E readFails \in BOOLEAN : CountLoad(p, readFails)

SpecCount == InitAnyMeta /\ [][NextCount]_vars

\* ------------------------------------------------- failing file operations
\* Lines 71-72 and 97-98 for an OSError raised by a file operation: the
\* message carries str(e).
StorageFailure(m) == Response(m, 500, "Server error: OSError", 0)

\* An exception raised inside with file_lock: the with block releases the
\* lock on the way out and the handler's except Exception answers 500.
Raise(p) ==
    /\ Release(p)
    /\ Return(p, StorageFailure(method[p]))
    /\ faults' = faults + 1

\* Line 54: open(JSONL_FILE, 'a') raises; nothing was written.
PostOpenFails(p) ==
    /\ pc[p] = "p_open"
    /\ Raise(p)
    /\ UNCHANGED <<files, pre, nReqs, hist>>

\* Lines 54-61: f.write raises when it flushes f's buffer, or the flush of
\* f.close() raises at the end of the with open block; the first k buffered
\* lines had reached the file.
PostWriteFails(p, k) ==
    /\ pc[p] = "p_loop"
    /\ \/ idx[p] < Len(samples[p]) /\ IsDict(samples[p][idx[p] + 1])
       \/ idx[p] = Len(samples[p]) /\ buf[p] # <<>>
    /\ k \in 0..Len(buf[p])
    /\ log' = log \o SubSeq(buf[p], 1, k)
    /\ Raise(p)
    /\ UNCHANGED <<logExists, meta, pre, nReqs, hist>>

\* Line 36: open(METADATA_FILE, 'w') raises; the counter file is untouched.
SetOpenFails(p) ==
    /\ pc[p] = "set_open"
    /\ Raise(p)
    /\ UNCHANGED <<files, pre, nReqs, hist>>

\* Line 37: json.dump or the flush of the close raises; the truncated file
\* is left empty or with a part of the text.
SetDumpFails(p, left) ==
    /\ pc[p] = "set_dump"
    /\ left \in {"empty", "garbage"}
    /\ meta' = [k |-> left, n |-> 0]
    /\ Raise(p)
    /\ UNCHANGED <<logExists, log, pre, nReqs, hist>>

\* Line 92: os.remove raises; the Log stays.
DeleteRemoveFails(p) ==
    /\ pc[p] = "d_remove"
    /\ logExists
    /\ Raise(p)
    /\ UNCHANGED <<files, pre, nReqs, hist>>

\* The service over a file system whose operations may raise OSError.
NextIO ==
    \/ Next
    \/ \E p \in Threads :
        \/ PostOpenFails(p)
        \/ \E k \in 0..MaxLen : PostWriteFails(p, k)
        \/ PostGetCount(p, TRUE)
        \/ SetOpenFails(p)
        \/ \E left \in {"empty", "garbage"} : SetDumpFails(p, left)
        \/ DeleteRemoveFails(p)
        \/ CountLoad(p, TRUE)

SpecIO == Init /\ [][NextIO]_vars

\* ------------------------------------------------------ fair scheduling
\* The steps of thread p once its request has taken the lock or needs none:
\* every statement of a handler, ending normally or by raising.
Run(p) ==
    \/ PostOpen(p) \/ PostOpenFails(p)
    \/ PostWrite(p) \/ PostFlush(p) \/ PostReject(p) \/ PostClose(p)
    \/ \E k \in 0..MaxLen : PostWriteFails(p, k)
    \/ \E readFails \in BOOLEAN : PostGetCount(p, readFails)
    \/ SetOpen(p) \/ SetOpenFails(p)
    \/ SetDump(p)
    \/ \E left \in {"empty", "garbage"} : SetDumpFails(p, left)
    \/ DeleteRemove(p) \/ DeleteRemoveFails(p)
    \/ \E readFails \in BOOLEAN : CountLoad(p, readFails)

\* Line 53 and line 90: the thread takes the lock.
Enter(p) == PostAcquire(p) \/ DeleteAcquire(p)

\* Every request thread keeps being scheduled (threaded=True: one OS thread
\* per request), and a thread that finds the lock free again and again gets
\* it.  Nothing is assumed about the arrival of requests.
Fairness ==
    \A p \in Threads : WF_vars(Run(p)) /\ SF_vars(Enter(p))

FairSpecIO == Init /\ [][NextIO]_vars /\ Fairness

\* ================================================================ claims
Rejected400 == Response("POST", 400, "Each sample must be a JSON object", 0)

\* Once file_lock is free again, resp and pre still belong to the request that
\* held it last: the thread that leaves the lock answers in the same step.
LastHolderAnswered(r) == file_lock = 0 /\ resp = r

\* ---------------------------------------------------------------- C1
\* C1: rejection is total.  When a POST /steps has been answered 400 because
\* an element of its list is not an object, the Log holds exactly the lines
\* it held when that request entered the exclusive section: no line of the
\* rejected batch is in it.
RejectionIsTotal ==
    LastHolderAnswered(Rejected400) => log = pre.log

\* ---------------------------------------------------------------- C2
\* C2: concurrent append safety.  From an empty store, as long as no DELETE
\* has run and no batch was rejected, whenever no request is inside the
\* exclusive section the Log holds exactly as many lines as the POSTs answered
\* 200 carried samples, and the persisted Count is that same number (T
\* requests of S samples each: T*S lines and a Count of T*S).
ConcurrentAppendSafety ==
    (file_lock = 0 /\ ~wasReset /\ ~wasRejected)
        => (Len(log) = okSamples /\ StoredCount = okSamples)

\* Two POSTs of two objects each were in flight together (the second thread
\* serves a request only while the first is busy) and both were answered 200.
TwoConcurrentBatchesStored ==
    /\ file_lock = 0
    /\ \A p \in Threads : pc[p] = "idle"
    /\ ~wasReset /\ ~wasRejected
    /\ okSamples = 4
    /\ Len(log) = 4
    /\ StoredCount = 4
    /\ {log[i].text[1] : i \in 1..Len(log)} = {1, 2}

\* ---------------------------------------------------------------- C3
\* C3: Count/Log invariant.  Whenever no request is inside the exclusive
\* section (and no file operation has failed), the persisted Count equals the
\* number of lines in the Log.
CountEqualsLogLines ==
    (file_lock = 0 /\ faults = 0) => StoredCount = Len(log)

\* A GET /steps is answered in this step: by CountLoad, or at once by
\* CountRequest when the counter file is missing.
GetAnswered ==
    \/ \E p \in Threads : pc[p] = "g_load" /\ pc'[p] = "idle"
    \/ nReqs' = nReqs + 1 /\ pc' = pc /\ resp'.method = "GET"

StoredCountIs(n) == Response("GET", 200, "storedCount", n)

\* ---------------------------------------------------------------- C4
\* C4: reset then re-count.  Once a DELETE /steps has been answered, whenever
\* no request is inside the exclusive section the persisted Count is the
\* number of samples of the POSTs answered 200 since the last DELETE (0 right
\* after it, K after a further POST of K samples, never M+K), and a GET /steps
\* that reads it then answers exactly that number.
ResetThenRecount ==
    [][ /\ (file_lock' = 0 /\ wasReset') => StoredCount' = sinceReset'
        /\ (GetAnswered /\ file_lock = 0 /\ wasReset)
              => resp' = StoredCountIs(sinceReset)
      ]_vars

\* M > 0 samples were stored, a DELETE ran, K > 0 samples were stored after
\* it, and the Count is K.
RecountedAfterReset ==
    /\ file_lock = 0
    /\ \A p \in Threads : pc[p] = "idle"
    /\ wasReset
    /\ sinceReset > 0
    /\ okSamples > sinceReset
    /\ StoredCount = sinceReset
    /\ Len(log) = sinceReset

\* ---------------------------------------------------------------- C5
\* C5: cumulative count.  From an empty store and with no DELETE, a GET
\* /steps that reads the counter while no request is inside the exclusive
\* section answers 200 with storedCount equal to the sum of the sizes of the
\* batches answered 200 so far (empty batches included).
CumulativeCount ==
    [][ (GetAnswered /\ file_lock = 0 /\ ~wasReset)
            => resp' = StoredCountIs(okSamples) ]_vars

\* Batches of sizes 1 and 2 (in either order) were stored and a GET answered 3.
GetAnsweredSumOfTwoBatches ==
    /\ resp = StoredCountIs(3)
    /\ okSamples = 3
    /\ ~wasReset
    /\ file_lock = 0
    /\ \A p \in Threads : pc[p] = "idle"

\* ---------------------------------------------------------------- C6
Deleted200 == Response("DELETE", 200, "All steps deleted successfully", 0)

\* C6: idempotent delete.  Every DELETE /steps, whether it found a Log or
\* not, is answered with the same 200 response and leaves the same state: no
\* Log file and a counter file holding 0.  A second DELETE in a row therefore
\* changes nothing and is not an error.
IdempotentDelete ==
    (file_lock = 0 /\ resp.method = "DELETE")
        => (resp = Deleted200 /\ ~logExists /\ log = <<>> /\ meta = MetaCount(0))

\* The second of two requests was a DELETE that found no Log and a counter of
\* 0, which only an earlier DELETE leaves behind, and it was answered 200.
DeletedTwiceInARow ==
    /\ file_lock = 0
    /\ resp = Deleted200
    /\ nReqs = 2
    /\ ~pre.exists
    /\ pre.meta = MetaCount(0)
    /\ ~logExists
    /\ meta = MetaCount(0)

\* ---------------------------------------------------------------- C7
IsPrefix(a, b) == Len(a) <= Len(b) /\ SubSeq(b, 1, Len(a)) = a


\* C7: a POST /steps answered 200 for a list of n objects answers saved = n
\* and leaves the Log equal to the Log it found when it entered the exclusive
\* section followed by the n lines of its samples, in list order; and every
\* step that changes the Log either appends to it (the old lines stay where
\* they were) or removes the whole file.
PureAppend ==
    [][ /\ \A p \in Threads :
             (pc[p] = "set_dump" /\ method[p] = "POST" /\ pc'[p] = "idle")
                => /\ resp' = Response("POST", 200, "Success", Len(samples[p]))
                   /\ log' = pre.log \o LinesOf(samples[p])
        /\ log' # log => \/ IsPrefix(log, log') /\ logExists'
                         \/ log' = <<>> /\ ~logExists'
      ]_vars

\* A batch of two objects was stored behind lines that were already there.
AppendedBehindOldLines ==
    /\ file_lock = 0
    /\ resp = Response("POST", 200, "Success", 2)
    /\ pre.log # <<>>
    /\ Len(log) = Len(pre.log) + 2
    /\ SubSeq(log, 1, Len(pre.log)) = pre.log
    /\ log[Len(log) - 1].text[2] = 1
    /\ log[Len(log)].text[2] = 2

\* ---------------------------------------------------------------- C8
\* What get_stored_count is to return for a counter file m.
ExpectedCount(m, readFails) == IF m.k = "count" /\ ~readFails THEN m.n ELSE 0

\* C8: GetCount fails soft.  Whatever the counter file holds (nothing, no
\* file at all, bytes that are not JSON, JSON that is no object, an object
\* without a count) and whether or not reading it fails, get_stored_count
\* raises nothing and returns 0, and it returns the persisted count when the
\* file holds one and can be read; GET /steps then answers 200 with that
\* value.
GetCountFailsSoft ==
    [][ /\ \A readFails \in BOOLEAN :
             get_stored_count(meta, readFails)
                = [raised |-> FALSE, val |-> ExpectedCount(meta, readFails)]
        /\ GetAnswered
              => resp' = StoredCountIs(ExpectedCount(meta, faults' # faults))
      ]_vars

\* A GET was answered 200 with 0 over a counter file that is not JSON.
GetAnsweredOverGarbage ==
    /\ meta.k = "garbage"
    /\ resp = StoredCountIs(0)

\* ---------------------------------------------------------------- C9
\* A POST is answered 400 in the step in which it arrives.
ShapeRejected ==
    /\ nReqs' = nReqs + 1
    /\ pc' = pc
    /\ resp'.method = "POST"
    /\ resp'.status = 400

\* C9: shape validation has no effect on the store.  A POST /steps whose
\* body has no samples key, or whose samples value is not a list, is answered
\* 400 at once: the thread never waits for or holds file_lock, and the Log
\* file and the counter file are neither created nor modified.
BadShapeLeavesStoreAlone ==
    [][ /\ \A p \in Threads, body \in Bodies :
             (body.kind \in {"null", "nokey", "notlist"} /\ PostRequest(p, body))
                => ShapeRejected
        /\ ShapeRejected
              => /\ UNCHANGED <<logExists, log, meta>>
                 /\ UNCHANGED file_lock
                 /\ \A p \in Threads : pc[p] = "idle" => file_lock # p
      ]_vars

\* A body whose samples value is not a list was answered 400 while the store
\* held lines and a count.
NotAListRejectedOverStoredData ==
    /\ resp = Response("POST", 400, "samples must be a list", 0)
    /\ file_lock = 0
    /\ log # <<>>
    /\ meta = MetaCount(Len(log))

\* ---------------------------------------------------------------- C10
\* The positions whose next step reads or writes JSONL_FILE or METADATA_FILE.
FileAccessPcs ==
    {"p_open", "p_loop", "p_count", "set_open", "set_dump", "d_remove", "g_load"}

\* C10: every access to the counter file and to the Log file is made by a
\* request that holds the exclusive section: a thread about to read or write
\* either file holds file_lock.
FileAccessUnderLock ==
    \A p \in Threads : pc[p] \in FileAccessPcs => file_lock = p

\* ---------------------------------------------------------------- C11
\* The positions between acquiring and releasing file_lock.
InsidePcs == {"p_open", "p_loop", "p_count", "set_open", "set_dump", "d_remove"}

Inside(p) == pc[p] \in InsidePcs

\* C11: mutual exclusion on the Log.  At most one request is between
\* acquiring and releasing file_lock, and it is the holder of the lock; and
\* the lines of one batch are contiguous in the Log: every line but the first
\* of a batch directly follows the line of the sample before it in that batch.
MutualExclusionOnLog ==
    /\ \A p, q \in Threads : (Inside(p) /\ Inside(q)) => p = q
    /\ \A p \in Threads : Inside(p) <=> file_lock = p
    /\ \A i \in 1..Len(log) :
          log[i].text[2] > 1
             => /\ i > 1
                /\ log[i - 1].text = <<log[i].text[1], log[i].text[2] - 1>>

\* A thread waits for the lock while the other is appending its batch behind
\* the whole batch of an earlier request.
WaitingWhileOtherAppends ==
    \E p, q \in Threads :
        /\ pc[p] = "p_lock"
        /\ pc[q] = "p_loop"
        /\ file_lock = q
        /\ Len(pre.log) = 2
        /\ Len(log) = 3
        /\ log[3].text[1] = q

\* ---------------------------------------------------------------- C12
\* The Count when the holder of the lock acquired it.
CountBefore == get_stored_count(pre.meta, FALSE).val

\* The Count the request of the holder h leaves behind: 0 for a DELETE, the
\* old Count plus the batch size for a batch of objects, the old Count for a
\* batch that is rejected.
CountAfter(h) ==
    IF method[h] = "DELETE" THEN 0
    ELSE IF \A i \in 1..Len(samples[h]) : IsDict(samples[h][i])
         THEN CountBefore + Len(samples[h])
         ELSE CountBefore

\* C12: atomic visibility of Count updates.  While a writer holds the lock,
\* a GET that reads the counter file now gets the Count from before the
\* writer's update or the Count after it, whichever of the two steps of
\* set_stored_count (truncate, write) the writer is at.
AtomicCountVisibility ==
    \A g, h \in Threads :
        (pc[g] = "g_load" /\ file_lock = h)
            => ExceptPass(OpenAndLoad(meta, FALSE)).val \in {CountBefore, CountAfter(h)}

\* ---------------------------------------------------------------- C13
\* C13: the Count is monotonically non-decreasing between resets.  A step
\* that changes the persisted Count is either the step that completes a
\* POST /steps answered 200, which leaves the Count of before the request
\* plus len(samples), or a step of a DELETE /steps, which leaves 0; no other
\* step changes the Count or lowers it.
CountChangesOnlyByWriters ==
    [][ StoredCount' # StoredCount
           => \E p \in Threads :
                 \/ /\ method[p] = "POST"
                    /\ resp' = Response("POST", 200, "Success", Len(samples[p]))
                    /\ StoredCount' = CountBefore + Len(samples[p])
                 \/ /\ method[p] = "DELETE"
                    /\ file_lock = p
                    /\ StoredCount' = 0 ]_vars

\* ---------------------------------------------------------------- C14
\* C14: a POST /steps answered 500 because a file operation inside the
\* exclusive section failed is all-or-nothing: once it has returned, the Log
\* and the Count are exactly as they were when it acquired the lock.
FailedPostIsAllOrNothing ==
    LastHolderAnswered(StorageFailure("POST"))
        => /\ log = pre.log
           /\ StoredCount = CountBefore

\* ---------------------------------------------------------------- C15
\* C15: progress under fair scheduling.  Every POST /steps and DELETE /steps
\* that waits for file_lock eventually has acquired it, answered and released
\* it; and the lock, once held, is eventually free again on every exit path
\* of the critical section (normal return, the 400 for a non-object sample,
\* an exception of a file operation).
LockProgress ==
    /\ \A p \in Threads :
          (pc[p] \in {"p_lock", "d_lock"}) ~> (pc[p] = "idle" /\ file_lock # p)
    /\ \A p \in Threads : (file_lock = p) ~> (file_lock = 0)

\* A DELETE holds the lock that a POST released by raising, after an earlier
\* POST had released it by the 400 from inside the critical section.
LockTakenAfterFailedExits ==
    \E p \in Threads :
        /\ file_lock = p
        /\ pc[p] = "d_remove"
        /\ resp = StorageFailure("POST")
        /\ wasRejected

\* ---------------------------------------------------------------- C16
\* C16: linearizability of writers.  With all-object batches, whenever no
\* request holds the lock the Log and the Count are those of running the
\* requests that have taken the lock one at a time, in the order in which
\* they took it; and the Count is the total size of the batches whose POST
\* took the lock after the last DELETE.
WritersLinearizable ==
    (file_lock = 0 /\ ~wasRejected)
        => /\ log = serial.log
           /\ StoredCount = serial.count
           /\ StoredCount = sinceReset

\* A 2-sample POST, a DELETE and a 1-sample POST took the lock in that
\* order, the last one started on the second thread while the first thread
\* was busy with another writer, and all have answered.
InterleavedWritersDone ==
    /\ file_lock = 0
    /\ \A p \in Threads : pc[p] = "idle"
    /\ ~wasRejected
    /\ wasReset
    /\ okSamples = 3
    /\ sinceReset = 1
    /\ Len(log) = 1
    /\ log[1].text[1] = 2

\* ---------------------------------------------------------------- C17
\* C17: the Count never overstates the Log.  Whenever no request holds
\* file_lock and no file operation has failed, the persisted Count is at
\* most the number of lines in the Log, after any sequence of accepted
\* POSTs, rejected POSTs and DELETEs.
CountNeverOverstates ==
    (file_lock = 0 /\ faults = 0) => StoredCount <= Len(log)

\* After an accepted and a rejected POST the Log holds more lines than the
\* Count tells.
CountBelowLogAfterRejection ==
    /\ file_lock = 0
    /\ faults = 0
    /\ wasRejected
    /\ StoredCount > 0
    /\ StoredCount < Len(log)

\* ---------------------------------------------------------------- C18
\* C18: a rejected batch does not touch the Count.  The step that answers
\* 400 'Each sample must be a JSON object' from inside the exclusive section
\* leaves the counter file as it is, and once the request has returned the
\* counter file is the one of when it took the lock, wherever the non-object
\* stands in the batch.
RejectedBatchKeepsCount ==
    /\ LastHolderAnswered(Rejected400) => (meta = pre.meta /\ StoredCount = CountBefore)
    /\ \A p \in Threads :
          (pc[p] = "p_loop" /\ ~(\A i \in 1..Len(samples[p]) : IsDict(samples[p][i])))
              => meta = pre.meta

\* A batch whose second element is not an object was rejected over a stored
\* Count of 2, after its first line had been written.
RejectedAtSecondOverStoredCount ==
    /\ LastHolderAnswered(Rejected400)
    /\ meta = MetaCount(2)
    /\ Len(pre.log) = 2
    /\ Len(log) = 3

====
